---- MODULE Spec2Model ----
(***************************************************************************)
(* Tool-invocation relay of the MoluAbi MCP client: the outcome classifier *)
(* (AtxpService.createAtxpFlow), the remote tool gateway                   *)
(* (MoluAbiMcpClient.callTool), the request handlers of routes.ts and the  *)
(* in-memory usage ledger (MemStorage).                                    *)
(*                                                                         *)
(* Strings that the code only scans for fragments are modelled by the set  *)
(* of distinguished fragments they contain: {} is the empty string, "ok"   *)
(* stands for any other characters.  Money is counted in thousandths of a  *)
(* dollar; the decimal strings the ledger stores are sequences of          *)
(* characters.                                                             *)
(***************************************************************************)
EXTENDS Integers, Sequences, FiniteSets, TLC

VARIABLES
    flowIn,            \* classifier harness: the gateway response under test
    flowCost,          \* classifier harness: the cost argument
    flowOut,           \* classifier harness: the value createAtxpFlow returned
    ledger,            \* MemStorage.toolUsage
    usageIdCounter,    \* MemStorage.usageIdCounter
    now,               \* wall clock (new Date())
    reqs,              \* the HTTP requests and the position of their handlers
    paymentMethod,     \* MoluAbiMcpClient.paymentMethod
    client,            \* MoluAbiMcpClient.client !== null
    apiKey,            \* process.env.MOLUABI_MCP_API_KEY is set
    atxpAvailable,     \* AtxpService.atxpAvailable && atxpAccount
    account,           \* AtxpService.account of the validatePayment revision
    currentAtxpSteps,  \* (global as any).currentAtxpSteps
    report,            \* the body of the last GET /api/usage answer
    agents,            \* MemStorage.agents
    agentAccess,       \* MemStorage.agentAccess
    agentIdCounter,    \* MemStorage.agentIdCounter
    gw,                \* one call of MoluAbiMcpClient.callTool under way
    answer,            \* what the last call of an agent method of MemStorage returned
    methodReply        \* the last answer of POST or GET /api/payment-method

vars == <<flowIn, flowCost, flowOut, ledger, usageIdCounter, now, reqs,
          paymentMethod, client, apiKey, atxpAvailable, account,
          currentAtxpSteps, report, agents, agentAccess, agentIdCounter, gw,
          answer, methodReply>>

----------------------------------------------------------------------------
(* Values                                                                  *)

\* A JSON field that the classifier reads as text: absent, a string, or a
\* truthy value that is not a string (a number, an object).
Absent == [k |-> "absent", t |-> {}]
NonStr == [k |-> "nonstr", t |-> {}]
Str(t) == [k |-> "str", t |-> t]
\* The fragments a text may contain are "ok", the marker and a failure word.
FieldValues ==
    {Absent, NonStr} \cup
    {Str(t) : t \in SUBSET {"ok", "[PAYMENT_FAILED]", "Unauthorized"}}

\* JavaScript truthiness of such a field.
Truthy(fv) == fv.k = "nonstr" \/ (fv.k = "str" /\ fv.t # {})

\* String.prototype.toLowerCase on a fragment.
ToLower(tok) ==
    CASE tok = "[PAYMENT_FAILED]" -> "[payment_failed]"
      [] tok = "Unauthorized" -> "unauthorized"
      [] OTHER -> tok

\* String.prototype.includes.
Includes(text, fragment) == fragment \in text

\* The content array of an MCP envelope.
NoContent == [tag |-> "absent", text |-> Absent]
Content(fv) == [tag |-> "item", text |-> fv]
ContentValues ==
    {NoContent, [tag |-> "empty", text |-> Absent]} \cup
    {Content(fv) : fv \in FieldValues}

\* The cost field of a response: absent, a number (thousandths), a string.
NoCost == [k |-> "absent", n |-> 0, s |-> <<>>]
NumCost(n) == [k |-> "num", n |-> n, s |-> <<>>]
StrCost(s) == [k |-> "str", n |-> 0, s |-> s]

\* A gateway response.  kind is "object" for a parsed JSON object (or
\* array), "null", "undefined", or "primitive" for a truthy non-object.
Obj(success, content, message, error, agentsSuccess, atxpError, agentId, cost) ==
    [kind |-> "object", success |-> success, content |-> content,
     message |-> message, error |-> error, agentsSuccess |-> agentsSuccess,
     atxpError |-> atxpError, agentId |-> agentId, cost |-> cost]
NonObj(kind) ==
    [kind |-> kind, success |-> "absent", content |-> NoContent,
     message |-> Absent, error |-> Absent, agentsSuccess |-> "absent",
     atxpError |-> Absent, agentId |-> 0, cost |-> NoCost]
NullResponse == NonObj("null")

TriState == {"absent", "true", "false"}

\* Every response the classifier is tried on.
Responses ==
    {NonObj(k) : k \in {"null", "undefined", "primitive"}} \cup
    {Obj(s, c, m, e, a, x, i, NoCost) :
        s \in TriState, c \in ContentValues, m \in FieldValues,
        e \in FieldValues, a \in TriState, x \in {Absent, Str({"ok"})},
        i \in {0, 42, 500}}

----------------------------------------------------------------------------
(* AtxpService.createAtxpFlow                                              *)

\* JSON.stringify(mcpResponse): some characters, the digits of the agent id
\* and whatever the string fields hold.
Stringify(r) ==
    {"ok"} \cup (IF r.agentId = 500 THEN {"500"} ELSE {})
           \cup r.atxpError.t \cup r.message.t \cup r.error.t \cup r.content.text.t

hasResponse(r) == r.kind = "object"

responseTextOf(r) ==
    IF ~hasResponse(r) THEN Str({})
    ELSE IF r.content.tag = "item" /\ Truthy(r.content.text) THEN r.content.text
    ELSE IF Truthy(r.message) THEN r.message
    ELSE IF Truthy(r.error) THEN r.error
    ELSE Str(Stringify(r))

\* responseText.toLowerCase() of a value that is not a string is a TypeError.
FlowThrows(r) == responseTextOf(r).k = "nonstr"

FailureSubstrings ==
    {"error:", "failed:", "payment failed", "[payment_failed]",
     "unexpected status code", "401", "403", "500", "502", "503", "504",
     "insufficient funds", "payment declined", "authentication failed",
     "unauthorized", "payment server", "/charge endpoint"}

responseContainsActualError(r) ==
    LET text == responseTextOf(r).t
    IN  text # {} /\ \E f \in FailureSubstrings :
                        Includes({ToLower(tok) : tok \in text}, f)

hasSuccessField(r) ==
    /\ r.kind \in {"object", "primitive"}
    /\ \/ r.success = "true"
       \/ r.agentsSuccess = "true"
       \/ r.content.tag = "item"

\* The negation taken over the whole conjunction.
mcpSuccessOf_m(r) ==
    hasResponse(r) /\ (hasSuccessField(r) \/
                       ~(responseContainsActualError(r) /\ r.success # "false"))

mcpSuccessOf(r) ==
    hasResponse(r) /\ (hasSuccessField(r) \/
                       (~responseContainsActualError(r) /\ r.success # "false"))

hasPaymentFailedPrefix(r) ==
    LET text == responseTextOf(r).t
    IN  text # {} /\ Includes(text, "[PAYMENT_FAILED]")

paymentStatusOf(r) ==
    IF Truthy(r.atxpError) THEN "error"
    ELSE IF hasPaymentFailedPrefix(r) THEN "warning"
    ELSE IF ~mcpSuccessOf(r) \/ responseContainsActualError(r) THEN "error"
    ELSE "success"

Step(id, status, cost, details) ==
    [id |-> id, status |-> status, cost |-> cost, details |-> details]

NoFlow == [threw |-> FALSE, steps |-> <<>>, totalSteps |-> 0,
           totalCost |-> NoCost, operation |-> "none"]
ThrownFlow == [threw |-> TRUE, steps |-> <<>>, totalSteps |-> 0,
               totalCost |-> NoCost, operation |-> "none"]

createAtxpFlow(operation, cost, r) ==
    IF FlowThrows(r) THEN ThrownFlow
    ELSE
    LET ok == mcpSuccessOf(r)
        pay == paymentStatusOf(r)
        authStep == Step("auth-start", "success", NumCost(0), "authenticating")
        preAuthStep == Step("payment-preauth", "success", NumCost(0), "validates")
        executionStep ==
            Step("tool-execution-payment", IF ok THEN "success" ELSE "error",
                 cost, IF ok THEN "executing" ELSE "execution failed")
        paymentStep ==
            Step("payment-confirmation", pay,
                 IF pay = "success" THEN cost ELSE NumCost(0),
                 CASE Truthy(r.atxpError) -> "atxpError"
                   [] ~Truthy(r.atxpError) /\ pay = "warning" -> "test mode"
                   [] ~Truthy(r.atxpError) /\ pay = "error" ->
                        IF responseContainsActualError(r)
                        THEN "payment processing failed"
                        ELSE "not processed"
                   [] OTHER -> "processed")
        completionStep ==
            Step("operation-complete", IF ok THEN "success" ELSE "error",
                 NumCost(0),
                 IF ok THEN (IF pay = "error"
                             THEN "executed successfully (payment failed)"
                             ELSE "executed successfully")
                 ELSE "execution failed")
    IN  [threw |-> FALSE,
         steps |-> <<authStep, preAuthStep, executionStep, paymentStep,
                     completionStep>>,
         totalSteps |-> 5, totalCost |-> cost, operation |-> operation]

----------------------------------------------------------------------------
(* Numbers and their decimal strings                                       *)

NaN == -1

Digits == <<"0", "1", "2", "3", "4", "5", "6", "7", "8", "9">>
IsDigit(c) == \E d \in 1..10 : Digits[d] = c
DigitVal(c) == (CHOOSE d \in 1..10 : Digits[d] = c) - 1

RECURSIVE IntDigits(_)
IntDigits(i) ==
    IF i < 10 THEN <<Digits[i + 1]>>
    ELSE IntDigits(i \div 10) \o <<Digits[(i % 10) + 1]>>

\* The fractional digits of f thousandths, without trailing zeros.
FracDigits(f) ==
    LET d1 == Digits[(f \div 100) + 1]
        d2 == Digits[((f \div 10) % 10) + 1]
        d3 == Digits[(f % 10) + 1]
    IN  IF f % 10 # 0 THEN <<d1, d2, d3>>
        ELSE IF f % 100 # 0 THEN <<d1, d2>>
        ELSE <<d1>>

\* Number.prototype.toString of n thousandths: 50 is "0.05", 2000 is "2".
NumToString(n) ==
    IF n % 1000 = 0 THEN IntDigits(n \div 1000)
    ELSE IntDigits(n \div 1000) \o <<".">> \o FracDigits(n % 1000)

\* Length of the longest prefix of s made of digits.
RECURSIVE DigitPrefix(_)
DigitPrefix(s) ==
    IF s = <<>> \/ ~IsDigit(Head(s)) THEN 0 ELSE 1 + DigitPrefix(Tail(s))

RECURSIVE DigitsValue(_)
DigitsValue(s) ==
    IF s = <<>> THEN 0
    ELSE DigitsValue(SubSeq(s, 1, Len(s) - 1)) * 10 + DigitVal(s[Len(s)])

\* What a numeric prefix of s is worth and how many characters it takes:
\* digits, then optionally a point and digits (read to the thousandth).
NumericPrefix(s) ==
    LET a == DigitPrefix(s)
        rest == SubSeq(s, a + 2, Len(s))
        hasDot == Len(s) > a /\ s[a + 1] = "."
        b == IF hasDot THEN DigitPrefix(rest) ELSE 0
        fd(i) == IF i <= b THEN DigitVal(rest[i]) ELSE 0
    IN  [digits |-> a + b,
         used |-> IF hasDot /\ a + b > 0 THEN a + 1 + b ELSE a,
         value |-> DigitsValue(SubSeq(s, 1, a)) * 1000
                   + fd(1) * 100 + fd(2) * 10 + fd(3)]

\* parseFloat: the longest numeric prefix, NaN when there is none.
ParseFloat(s) ==
    LET p == NumericPrefix(s) IN IF p.digits = 0 THEN NaN ELSE p.value

\* Number(string): the whole string must be numeric; "" is 0.
NumberOfString(s) ==
    LET p == NumericPrefix(s)
    IN  IF s = <<>> THEN 0
        ELSE IF p.digits = 0 \/ p.used # Len(s) THEN NaN ELSE p.value

\* Number(v) of a response's cost field.
NumberOf(c) ==
    CASE c.k = "num" -> c.n
      [] c.k = "str" -> NumberOfString(c.s)
      [] OTHER -> NaN

\* v.toString() of a number or a string.
ToStringOf(c) == IF c.k = "num" THEN NumToString(c.n) ELSE c.s

\* sum + x in the reduce of GET /api/usage.
Plus(a, b) == IF a = NaN \/ b = NaN THEN NaN ELSE a + b

----------------------------------------------------------------------------
(* MemStorage: the usage ledger                                            *)

NoMessage == "null"

\* usage.response || null
OrNull(resp) == IF resp.kind \in {"null", "undefined"} THEN NullResponse ELSE resp

\* A ledger that keeps the newest row first.
recordToolUsage_m(l, id, clock, usage) ==
    <<[id |-> id,
       userId |-> usage.userId,
       toolName |-> usage.toolName,
       cost |-> usage.cost,
       status |-> usage.status,
       errorMessage |-> usage.errorMessage,
       response |-> OrNull(usage.response),
       createdAt |-> clock,
       req |-> usage.req]>> \o l

\* MemStorage.recordToolUsage: the ledger after the push.  req names the
\* request on whose behalf the row is written (bookkeeping of the model).
recordToolUsage(l, id, clock, usage) ==
    Append(l, [id |-> id,
               userId |-> usage.userId,
               toolName |-> usage.toolName,
               cost |-> usage.cost,
               status |-> usage.status,
               errorMessage |-> usage.errorMessage,
               response |-> OrNull(usage.response),
               createdAt |-> clock,
               req |-> usage.req])

\* A handler that marks the row of a failed call as still pending.
Usage_m(req, userId, toolName, cost, status, errorMessage, response) ==
    [req |-> req, userId |-> userId, toolName |-> toolName, cost |-> cost,
     status |-> IF status = "error" THEN "pending" ELSE status,
     errorMessage |-> errorMessage, response |-> response]

Usage(req, userId, toolName, cost, status, errorMessage, response) ==
    [req |-> req, userId |-> userId, toolName |-> toolName, cost |-> cost,
     status |-> status, errorMessage |-> errorMessage, response |-> response]

----------------------------------------------------------------------------
(* MoluAbiMcpClient: the gateway                                           *)

ErrNotConnected == "MCP server not connected"
ErrNoKey == "MOLUABI_MCP_API_KEY not found in environment variables"
ErrStatus503 == "MCP server responded with status 503: Service Unavailable"
ErrNetwork == "fetch failed"
ErrBadJson == "Unexpected token < in JSON at position 0"
ErrTypeError == "responseText.toLowerCase is not a function"

\* A thrown value: an Error with a message, or something else.
Err(m) == [isError |-> TRUE, message |-> m]

\* The message of the thrown value dropped for the fallback text.
MessageOf_m(e, fallback) == fallback

\* error instanceof Error ? error.message : fallback
MessageOf(e, fallback) == IF e.isError THEN e.message ELSE fallback

Ok(r) == [ok |-> TRUE, resp |-> r, err |-> Err("none")]
Fail(e) == [ok |-> FALSE, resp |-> NullResponse, err |-> e]
NoOutcome == [ok |-> FALSE, resp |-> NullResponse, err |-> Err("pending")]

\* The bodies the remote server is taken to answer with.
SuccessWithAgent ==
    Obj("true", NoContent, Absent, Absent, "absent", Absent, 42, NoCost)
SuccessWithCost ==
    Obj("true", NoContent, Absent, Absent, "absent", Absent, 0, NumCost(50))
SuccessWithStringCost ==
    Obj("true", NoContent, Absent, Absent, "absent", Absent, 0,
        StrCost(<<"0", ".", "0", "5">>))
FailureUnauthorized ==
    Obj("false", NoContent, Absent, Str({"Unauthorized"}), "absent", Absent,
        0, NoCost)
ContentPaymentFailed ==
    Obj("absent", Content(Str({"ok", "[PAYMENT_FAILED]"})), Absent, Absent,
        "absent", Absent, 0, NumCost(1))
MessageNotAString ==
    Obj("true", NoContent, NonStr, Absent, "absent", Absent, 0, NoCost)
HandlerResponses ==
    {SuccessWithAgent, SuccessWithCost, SuccessWithStringCost,
     FailureUnauthorized, ContentPaymentFailed, MessageNotAString,
     NullResponse}

\* What callTool does before it awaits the remote server: it throws, or it
\* has one request under way through fetch ("http") or the ATXP SDK ("atxp").
Thrown(e) == [sent |-> "none", err |-> e]
Sent(how) == [sent |-> how, err |-> Err("none")]

callTool(connected, key, method, sdk) ==
    IF ~connected THEN Thrown(Err(ErrNotConnected))
    ELSE IF ~key THEN Thrown(Err(ErrNoKey))
    ELSE IF method = "atxp"
         THEN (IF ~sdk THEN Thrown(Err("ATXP SDK not available - package not installed or import failed")) ELSE Sent("atxp"))
         ELSE Sent("http")

getPricing(connected, key) ==
    IF ~connected THEN Thrown(Err("MCP client not connected"))
    ELSE IF ~key THEN Thrown(Err(ErrNoKey))
    ELSE Sent("pricing")

\* How an awaited call may end.
OutcomesOf(call) ==
    CASE call.sent = "none" -> {Fail(call.err)}
      [] call.sent = "http" ->
            {Ok(r) : r \in HandlerResponses} \cup
            {Fail(Err(ErrStatus503)), Fail(Err(ErrNetwork)), Fail(Err(ErrBadJson))}
      [] call.sent = "atxp" ->
            {Ok(r) : r \in HandlerResponses} \cup
            {Fail(Err("ATXP endpoint routing issue: HTTP 404")), Fail([isError |-> FALSE, message |-> "rejection"])}
      [] call.sent = "pricing" ->
            {Ok(r) : r \in HandlerResponses} \cup
            {Fail(Err("Failed to get pricing: 503")), Fail(Err(ErrNetwork)), Fail(Err(ErrBadJson))}
      [] call.sent = "stdio" ->
            {Ok(r) : r \in HandlerResponses} \cup {Fail(Err(ErrNetwork))}

----------------------------------------------------------------------------
(* Requests                                                                *)

MaxReq == 1

ReqIds == 1..MaxReq
Users == {"user_demo_123", "user_b"}
\* req.body.userId || "user_demo_123" of the requests the handlers are run on.
RequestUsers == {"user_demo_123"}
ToolNames == {"get_agent", "list_agents"}
ArgNames == {"agentId"}

\* getFieldsForTool: the arguments the tool registry marks as required.
RequiredArgs(toolName) ==
    CASE toolName = "get_agent" -> {"agentId"}
      [] toolName = "update_agent" -> {"agentId"}
      [] toolName = "create_agent" -> {"name", "description", "type"}
      [] OTHER -> {}

ErrorBody(m) == [error |-> m, hasFlow |-> FALSE, atxpFlow |-> NoFlow]
FlowBody(f) == [error |-> NoMessage, hasFlow |-> TRUE, atxpFlow |-> f]

IdleReq ==
    [ep |-> "none", route |-> "-", pc |-> "idle", userId |-> "user_demo_123",
     toolName |-> "none", args |-> {}, call |-> [sent |-> "none", err |-> Err("no call")], gatewayCalls |-> 0,
     outcome |-> NoOutcome, actualCost |-> NumCost(0), status |-> "success",
     errorMessage |-> NoMessage, classified |-> 0, flowArg |-> NullResponse,
     flow |-> NoFlow, paymentValid |-> FALSE, flowSteps |-> <<>>,
     http |-> 0, body |-> [error |-> NoMessage, hasFlow |-> FALSE, atxpFlow |-> NoFlow], sent |-> 0]

\* Request slots are taken in order.
CanReceive(r) ==
    /\ reqs[r].pc = "idle"
    /\ r > 1 => reqs[r - 1].pc # "idle"

WrittenBy(r) == {i \in 1..Len(ledger) : ledger[i].req = r}

storageVars == <<ledger, usageIdCounter>>
flowVars == <<flowIn, flowCost, flowOut>>
envVars == <<client, apiKey, atxpAvailable, account, methodReply>>
agentVars == <<agents, agentAccess, agentIdCounter, answer>>

----------------------------------------------------------------------------
(* POST /api/mcp/tools/:toolName                                           *)

\* The handler up to its await of mcpClient.callTool.
ToolsReceive(r, u, tool, args) ==
    /\ CanReceive(r)
    /\ reqs' = [reqs EXCEPT ![r] =
                  [@ EXCEPT !.ep = "tools", !.pc = "gateway", !.userId = u,
                            !.toolName = tool, !.args = args,
                            !.call = callTool(client, apiKey, paymentMethod,
                                              atxpAvailable),
                            !.gatewayCalls = @ + 1]]
    /\ UNCHANGED <<storageVars, flowVars, envVars, agentVars, gw, now, paymentMethod,
                   currentAtxpSteps, report>>

\* The price the tool registry lists for a tool, in thousandths.
ExpectedCost == 50

\* A fallback to the listed price when the response has no numeric cost.
ToolsCost_m(o) ==
    IF o.ok /\ o.resp.kind = "object" /\ o.resp.cost.k = "num"
    THEN o.resp.cost ELSE NumCost(ExpectedCost)

\* typeof mcpResponse.cost === 'number' ? mcpResponse.cost : 0
ToolsCost(o) ==
    IF o.ok /\ o.resp.kind = "object" /\ o.resp.cost.k = "num"
    THEN o.resp.cost ELSE NumCost(0)

\* From the settling of callTool to the await of recordToolUsage, or to the
\* answer of the outer catch when createAtxpFlow throws.
ToolsGatewayDone(r, o) ==
    LET q == reqs[r]
        mcpResponse == IF o.ok THEN o.resp ELSE NullResponse
        status == IF o.ok THEN "success" ELSE "error"
        errorMessage == IF o.ok THEN NoMessage
                        ELSE MessageOf(o.err, "MCP call failed")
        actualCost == ToolsCost(o)
        atxpFlow == createAtxpFlow(q.toolName, actualCost, mcpResponse)
        seen == [q EXCEPT !.outcome = o, !.actualCost = actualCost,
                          !.status = status, !.errorMessage = errorMessage,
                          !.classified = @ + 1, !.flowArg = mcpResponse,
                          !.flow = atxpFlow]
    IN  /\ q.ep = "tools" /\ q.pc = "gateway"
        /\ o \in OutcomesOf(q.call)
        /\ IF atxpFlow.threw
           THEN /\ reqs' = [reqs EXCEPT ![r] =
                              [seen EXCEPT !.pc = "responded", !.sent = @ + 1,
                                     !.http = 500,
                                           !.body = ErrorBody(ErrTypeError)]]
                /\ UNCHANGED storageVars
           ELSE /\ ledger' = recordToolUsage(ledger, usageIdCounter, now,
                                Usage(r, q.userId, q.toolName,
                                      ToStringOf(actualCost), status,
                                      errorMessage, mcpResponse))
                /\ usageIdCounter' = usageIdCounter + 1
                /\ reqs' = [reqs EXCEPT ![r] = [seen EXCEPT !.pc = "recorded"]]
        /\ UNCHANGED <<flowVars, envVars, agentVars, gw, now, paymentMethod,
                       currentAtxpSteps, report>>

\* A handler whose error branch lacks its return: the 500 is followed by
\* the success answer.
ToolsRespond_m(r) ==
    LET q == reqs[r]
    IN  /\ q.ep = "tools" /\ q.pc = "recorded"
        /\ reqs' = [reqs EXCEPT ![r] =
                      IF q.status = "error"
                      THEN [q EXCEPT !.pc = "responded", !.sent = @ + 2,
                                     !.http = 500,
                                     !.body = ErrorBody(q.errorMessage)]
                      ELSE [q EXCEPT !.pc = "responded", !.sent = @ + 1,
                                     !.http = 200,
                                     !.body = FlowBody(q.flow)]]
        /\ UNCHANGED <<storageVars, flowVars, envVars, agentVars, gw, now,
                       paymentMethod, currentAtxpSteps, report>>

\* After the ledger write: the answer.
ToolsRespond(r) ==
    LET q == reqs[r]
    IN  /\ q.ep = "tools" /\ q.pc = "recorded"
        /\ reqs' = [reqs EXCEPT ![r] =
                      IF q.status = "error"
                      THEN [q EXCEPT !.pc = "responded", !.sent = @ + 1,
                                     !.http = 500,
                                     !.body = ErrorBody(q.errorMessage)]
                      ELSE [q EXCEPT !.pc = "responded", !.sent = @ + 1,
                                     !.http = 200,
                                     !.body = FlowBody(q.flow)]]
        /\ UNCHANGED <<storageVars, flowVars, envVars, agentVars, gw, now, paymentMethod,
                       currentAtxpSteps, report>>

----------------------------------------------------------------------------
(* POST /api/agents and PUT /api/agents/:id                                *)

AgentTool(route) == IF route = "POST" THEN "create_agent" ELSE "update_agent"
AgentOkStatus(route) == IF route = "POST" THEN 201 ELSE 200
AgentCatchStatus(route) == IF route = "POST" THEN 400 ELSE 500

\* The body fields a request may carry: the id of PUT is part of the path.
AgentArgChoices(route) ==
    IF route = "POST" THEN {{}, RequiredArgs("create_agent")}
    ELSE {{"agentId"}}

AgentsReceive(r, route, u, args) ==
    /\ CanReceive(r)
    /\ reqs' = [reqs EXCEPT ![r] =
                  [@ EXCEPT !.ep = "agents", !.route = route, !.pc = "gateway",
                            !.userId = u, !.toolName = AgentTool(route),
                            !.args = args,
                            !.call = callTool(client, apiKey, paymentMethod,
                                              atxpAvailable),
                            !.gatewayCalls = @ + 1]]
    /\ UNCHANGED <<storageVars, flowVars, envVars, agentVars, gw, now, paymentMethod,
                   currentAtxpSteps, report>>

\* 'cost' in mcpResponse ? Number(mcpResponse.cost) || 0 : 0
AgentsCost(resp) ==
    IF resp.kind = "object" /\ resp.cost.k # "absent"
       /\ NumberOf(resp.cost) # NaN
    THEN NumCost(NumberOf(resp.cost)) ELSE NumCost(0)

AgentsGatewayDone(r, o) ==
    LET q == reqs[r]
        actualCost == AgentsCost(o.resp)
        atxpFlow == createAtxpFlow(q.toolName, actualCost, o.resp)
        status == IF o.resp.success # "false" THEN "success" ELSE "error"
        seen == [q EXCEPT !.outcome = o, !.actualCost = actualCost,
                          !.status = status, !.classified = @ + 1,
                          !.flowArg = o.resp, !.flow = atxpFlow]
    IN  /\ q.ep = "agents" /\ q.pc = "gateway"
        /\ o \in OutcomesOf(q.call)
        /\ IF ~o.ok
           THEN /\ reqs' = [reqs EXCEPT ![r] =
                              [q EXCEPT !.outcome = o, !.pc = "responded",
                                        !.sent = @ + 1,
                                        !.http = AgentCatchStatus(q.route),
                                        !.body = ErrorBody(
                                            MessageOf(o.err, "Unknown error"))]]
                /\ UNCHANGED storageVars
           ELSE IF atxpFlow.threw
           THEN /\ reqs' = [reqs EXCEPT ![r] =
                              [seen EXCEPT !.pc = "responded", !.sent = @ + 1,
                                           !.http = AgentCatchStatus(q.route),
                                           !.body = ErrorBody(ErrTypeError)]]
                /\ UNCHANGED storageVars
           ELSE /\ ledger' = recordToolUsage(ledger, usageIdCounter, now,
                                Usage(r, q.userId, q.toolName,
                                      ToStringOf(actualCost), status,
                                      NoMessage, o.resp))
                /\ usageIdCounter' = usageIdCounter + 1
                /\ reqs' = [reqs EXCEPT ![r] = [seen EXCEPT !.pc = "recorded"]]
        /\ UNCHANGED <<flowVars, envVars, agentVars, gw, now, paymentMethod,
                       currentAtxpSteps, report>>

AgentsRespond(r) ==
    LET q == reqs[r]
    IN  /\ q.ep = "agents" /\ q.pc = "recorded"
        /\ reqs' = [reqs EXCEPT ![r] =
                      [q EXCEPT !.pc = "responded", !.sent = @ + 1,
                                !.http = AgentOkStatus(q.route),
                                !.body = FlowBody(q.flow)]]
        /\ UNCHANGED <<storageVars, flowVars, envVars, agentVars, gw, now, paymentMethod,
                       currentAtxpSteps, report>>

----------------------------------------------------------------------------
(* GET /api/pricing                                                        *)

PricingReceive(r, u) ==
    /\ CanReceive(r)
    /\ reqs' = [reqs EXCEPT ![r] =
                  [@ EXCEPT !.ep = "pricing", !.pc = "gateway", !.userId = u,
                            !.toolName = "get_pricing",
                            !.call = getPricing(client, apiKey),
                            !.gatewayCalls = @ + 1]]
    /\ UNCHANGED <<storageVars, flowVars, envVars, agentVars, gw, now, paymentMethod,
                   currentAtxpSteps, report>>

\* pricingData?.cost || 0.001
PricingCost(pricingData) ==
    IF pricingData.kind = "object" /\
       \/ pricingData.cost.k = "num" /\ pricingData.cost.n # 0
       \/ pricingData.cost.k = "str" /\ pricingData.cost.s # <<>>
    THEN pricingData.cost ELSE NumCost(1)

\* pricingData ? { success: true } : { success: false }
PricingFlowArg(pricingData) ==
    Obj(IF pricingData.kind \in {"object", "primitive"} THEN "true" ELSE "false",
        NoContent, Absent, Absent, "absent", Absent, 0, NoCost)

PricingGatewayDone(r, o) ==
    LET q == reqs[r]
        pricingData == IF o.ok THEN o.resp ELSE NullResponse
        status == IF o.ok THEN "success" ELSE "error"
        errorMessage == IF o.ok THEN NoMessage
                        ELSE MessageOf(o.err, "Pricing call failed")
        actualCost == PricingCost(pricingData)
        atxpFlow == createAtxpFlow("get_pricing", actualCost,
                                   PricingFlowArg(pricingData))
    IN  /\ q.ep = "pricing" /\ q.pc = "gateway"
        /\ o \in OutcomesOf(q.call)
        /\ ledger' = recordToolUsage(ledger, usageIdCounter, now,
                         Usage(r, q.userId, "get_pricing",
                               ToStringOf(actualCost), status, errorMessage,
                               pricingData))
        /\ usageIdCounter' = usageIdCounter + 1
        /\ reqs' = [reqs EXCEPT ![r] =
                      [q EXCEPT !.outcome = o, !.actualCost = actualCost,
                                !.status = status,
                                !.errorMessage = errorMessage,
                                !.classified = @ + 1,
                                !.flowArg = PricingFlowArg(pricingData),
                                !.flow = atxpFlow, !.pc = "recorded"]]
        /\ UNCHANGED <<flowVars, envVars, agentVars, gw, now, paymentMethod,
                       currentAtxpSteps, report>>

PricingRespond(r) ==
    LET q == reqs[r]
    IN  /\ q.ep = "pricing" /\ q.pc = "recorded"
        /\ reqs' = [reqs EXCEPT ![r] =
                      IF q.status = "error"
                      THEN [q EXCEPT !.pc = "responded", !.sent = @ + 1,
                                     !.http = 500,
                                     !.body = ErrorBody(q.errorMessage)]
                      ELSE [q EXCEPT !.pc = "responded", !.sent = @ + 1,
                                     !.http = 200,
                                     !.body = FlowBody(q.flow)]]
        /\ UNCHANGED <<storageVars, flowVars, envVars, agentVars, gw, now, paymentMethod,
                       currentAtxpSteps, report>>

----------------------------------------------------------------------------
(* POST /api/mcp/tools/:toolName of the revision that logs flowSteps and   *)
(* validates and processes payments (AtxpService.validatePayment,          *)
(* processPayment, (global as any).currentAtxpSteps)                       *)

\* addFlowStep and the steps of the service carry no model of their text.
LogStep(id, status) == Step(id, status, NumCost(0), "-")

\* validatePayment: the steps it stores globally and its verdict.
validatePaymentSteps ==
    <<LogStep("auth-start", "success"), LogStep("token-validation", "success")>>
validatePayment(acct) == acct = "ok"

\* processPayment before its first fetch: two steps pushed on the global list.
processPaymentStart(steps, cost) ==
    steps \o <<Step("tool-execution", "success", cost, "-"),
               Step("payment-processing", "in-progress", cost, "-")>>

\* findIndex(s => s.id === 'payment-processing'), 0 when there is none.
PaymentStepIndex(steps) ==
    IF \E i \in 1..Len(steps) : steps[i].id = "payment-processing"
    THEN CHOOSE i \in 1..Len(steps) :
            /\ steps[i].id = "payment-processing"
            /\ \A j \in 1..(i - 1) : steps[j].id # "payment-processing"
    ELSE 0

\* processPayment after its fetches: the payment step is marked and the
\* completion step pushed.
processPaymentEnd(steps, paid) ==
    LET i == PaymentStepIndex(steps)
        marked == IF i = 0 THEN steps
                  ELSE [steps EXCEPT ![i].status =
                            IF paid THEN "success" ELSE "warning"]
    IN  marked \o <<LogStep("operation-complete", "success")>>

ToolsV1Receive(r, u, tool, args) ==
    /\ CanReceive(r)
    /\ reqs' = [reqs EXCEPT ![r] =
                  [@ EXCEPT !.ep = "toolsV1", !.pc = "validate", !.userId = u,
                            !.toolName = tool, !.args = args,
                            !.paymentValid = validatePayment(account),
                            !.flowSteps =
                                <<LogStep("operation-start", "success"),
                                  LogStep("payment-validation", "in-progress")>>]]
    /\ currentAtxpSteps' = validatePaymentSteps
    /\ UNCHANGED <<storageVars, flowVars, envVars, agentVars, gw, now, paymentMethod, report>>

ToolsV1Validated(r) ==
    LET q == reqs[r]
    IN  /\ q.ep = "toolsV1" /\ q.pc = "validate"
        /\ reqs' = [reqs EXCEPT ![r] =
              IF ~q.paymentValid
              THEN [q EXCEPT !.pc = "responded", !.sent = @ + 1,
                                     !.http = 402,
                             !.body = ErrorBody("Payment validation failed"),
                             !.flowSteps = @ \o
                                 <<LogStep("payment-validation", "error")>>]
              ELSE [q EXCEPT !.pc = "gateway",
                             !.call = callTool(client, apiKey, paymentMethod,
                                               atxpAvailable),
                             !.gatewayCalls = @ + 1,
                             !.flowSteps = @ \o
                                 <<LogStep("payment-validation", "success"),
                                   LogStep("mcp-execution", "in-progress")>>]]
        /\ UNCHANGED <<storageVars, flowVars, envVars, agentVars, gw, now, paymentMethod,
                       currentAtxpSteps, report>>

\* The steps around the ledger write.
RecordingSteps(cost) ==
    <<LogStep("usage-recording", "in-progress"),
      Step("usage-recording", "success", cost, "-")>>

ToolsV1GatewayDone(r, o) ==
    LET q == reqs[r]
        actualCost == ToolsCost(o)
        errorMessage == MessageOf(o.err, "MCP call failed")
    IN  /\ q.ep = "toolsV1" /\ q.pc = "gateway"
        /\ o \in OutcomesOf(q.call)
        /\ IF o.ok
           THEN /\ reqs' = [reqs EXCEPT ![r] =
                      [q EXCEPT !.outcome = o, !.actualCost = actualCost,
                                !.status = "success", !.pc = "payment",
                                !.flowSteps = @ \o
                                  <<Step("mcp-execution", "success",
                                         actualCost, "-"),
                                    LogStep("payment-processing",
                                            "in-progress")>>]]
                /\ currentAtxpSteps' =
                       processPaymentStart(currentAtxpSteps, actualCost)
                /\ UNCHANGED storageVars
           ELSE /\ reqs' = [reqs EXCEPT ![r] =
                      [q EXCEPT !.outcome = o, !.actualCost = NumCost(0),
                                !.status = "error",
                                !.errorMessage = errorMessage,
                                !.pc = "recorded",
                                !.flowSteps = @ \o
                                  <<LogStep("mcp-execution", "error")>> \o
                                  RecordingSteps(NumCost(0))]]
                /\ ledger' = recordToolUsage(ledger, usageIdCounter, now,
                                Usage(r, q.userId, q.toolName,
                                      ToStringOf(NumCost(0)), "error",
                                      errorMessage, NullResponse))
                /\ usageIdCounter' = usageIdCounter + 1
                /\ UNCHANGED currentAtxpSteps
        /\ UNCHANGED <<flowVars, envVars, agentVars, gw, now, paymentMethod, report>>

\* processPayment settles (paid: one payment endpoint answered 2xx); the
\* handler goes on to the ledger write.
ToolsV1PaymentDone(r, paid) ==
    LET q == reqs[r]
    IN  /\ q.ep = "toolsV1" /\ q.pc = "payment"
        /\ currentAtxpSteps' = processPaymentEnd(currentAtxpSteps, paid)
        /\ ledger' = recordToolUsage(ledger, usageIdCounter, now,
                         Usage(r, q.userId, q.toolName,
                               ToStringOf(q.actualCost), q.status,
                               NoMessage, q.outcome.resp))
        /\ usageIdCounter' = usageIdCounter + 1
        /\ reqs' = [reqs EXCEPT ![r] =
                      [q EXCEPT !.pc = "recorded",
                                !.flowSteps = @ \o
                                  <<Step("payment-processing", "success",
                                         q.actualCost, "-")>> \o
                                  RecordingSteps(q.actualCost)]]
        /\ UNCHANGED <<flowVars, envVars, agentVars, gw, now, paymentMethod, report>>

ToolsV1Respond(r) ==
    LET q == reqs[r]
        allSteps == currentAtxpSteps \o q.flowSteps
    IN  /\ q.ep = "toolsV1" /\ q.pc = "recorded"
        /\ reqs' = [reqs EXCEPT ![r] =
              IF q.status = "error"
              THEN [q EXCEPT !.pc = "responded", !.sent = @ + 1,
                                     !.http = 500,
                             !.body = ErrorBody(q.errorMessage)]
              ELSE [q EXCEPT !.pc = "responded", !.sent = @ + 1,
                                     !.http = 200,
                             !.body = FlowBody(
                                [threw |-> FALSE, steps |-> allSteps,
                                 totalSteps |-> Len(allSteps),
                                 totalCost |-> q.actualCost,
                                 operation |-> q.toolName])]]
        /\ UNCHANGED <<storageVars, flowVars, envVars, agentVars, gw, now, paymentMethod,
                       currentAtxpSteps, report>>

----------------------------------------------------------------------------
(* POST /api/payment-method                                                *)

\* ['apikey', 'atxp'], and what else a body may hold as method.
ValidPaymentMethods == {"apikey", "atxp"}

\* An answer of the payment-method endpoints: the status and, when the
\* body names one, the payment method.
Reply(endpoint, http, method) ==
    [endpoint |-> endpoint, http |-> http, paymentMethod |-> method]
NoReply == Reply("none", 0, "none")

\* A handler that stores whatever method it is sent.
PostPaymentMethod_m(method) ==
    /\ paymentMethod' = IF method # "absent" THEN method ELSE paymentMethod
    /\ methodReply' = IF method \in ValidPaymentMethods
                      THEN Reply("POST", 200, method)
                      ELSE Reply("POST", 400, "none")
    /\ UNCHANGED <<storageVars, flowVars, client, apiKey, atxpAvailable,
                   account, agentVars, gw, now, reqs, currentAtxpSteps, report>>

PostPaymentMethod(method) ==
    /\ paymentMethod' = IF method \in ValidPaymentMethods THEN method
                        ELSE paymentMethod
    /\ methodReply' = IF method \in ValidPaymentMethods
                      THEN Reply("POST", 200, method)
                      ELSE Reply("POST", 400, "none")
    /\ UNCHANGED <<storageVars, flowVars, client, apiKey, atxpAvailable,
                   account, agentVars, gw, now, reqs, currentAtxpSteps, report>>

GetPaymentMethod ==
    /\ methodReply' = Reply("GET", 200, paymentMethod)
    /\ UNCHANGED <<storageVars, flowVars, client, apiKey, atxpAvailable,
                   account, agentVars, gw, now, reqs, paymentMethod,
                   currentAtxpSteps, report>>

----------------------------------------------------------------------------
(* MemStorage.getUserUsageReport and GET /api/usage                        *)

MaxTime == 1
MaxLedger == 2

NoDate == -1
Dates == {NoDate} \cup (0..MaxTime)

\* The end of the range taken as exclusive.
getUserUsageReport_m(l, userId, startDate, endDate) ==
    SelectSeq(l, LAMBDA usage :
        IF usage.userId # userId THEN FALSE
        ELSE IF startDate # NoDate /\ usage.createdAt < startDate THEN FALSE
        ELSE IF endDate # NoDate /\ usage.createdAt >= endDate THEN FALSE
        ELSE TRUE)

getUserUsageReport(l, userId, startDate, endDate) ==
    SelectSeq(l, LAMBDA usage :
        IF usage.userId # userId THEN FALSE
        ELSE IF startDate # NoDate /\ usage.createdAt < startDate THEN FALSE
        ELSE IF endDate # NoDate /\ usage.createdAt > endDate THEN FALSE
        ELSE TRUE)

\* usage.reduce((sum, record) => sum + parseFloat(record.cost), 0)
RECURSIVE TotalCost(_)
TotalCost(usage) ==
    IF usage = <<>> THEN 0
    ELSE Plus(TotalCost(SubSeq(usage, 1, Len(usage) - 1)),
              ParseFloat(usage[Len(usage)].cost))

NoReport ==
    [asked |-> FALSE, userId |-> "user_demo_123", startDate |-> NoDate,
     endDate |-> NoDate, usage |-> <<>>, totalCost |-> 0, totalActions |-> 0,
     successfulActions |-> 0, failedActions |-> 0]

GetUsage(u, startDate, endDate) ==
    LET usage == getUserUsageReport(ledger, u, startDate, endDate)
    IN  /\ report' =
              [asked |-> TRUE, userId |-> u, startDate |-> startDate,
               endDate |-> endDate, usage |-> usage,
               totalCost |-> TotalCost(usage),
               totalActions |-> Len(usage),
               successfulActions |->
                   Len(SelectSeq(usage, LAMBDA x : x.status = "success")),
               failedActions |->
                   Len(SelectSeq(usage, LAMBDA x : x.status = "error"))]
        /\ UNCHANGED <<storageVars, flowVars, envVars, agentVars, gw, now, reqs,
                       paymentMethod, currentAtxpSteps>>

\* Direct calls of storage.recordToolUsage: the decimal costs and the
\* statuses of the rows stored.
StoredRows ==
    {[cost |-> 0, status |-> "error"], [cost |-> 50, status |-> "success"],
     [cost |-> 1500, status |-> "success"]}

RecordUsage(u, tool, n, status) ==
    /\ Len(ledger) < MaxLedger
    /\ ledger' = recordToolUsage(ledger, usageIdCounter, now,
                     Usage(0, u, tool, NumToString(n), status, NoMessage,
                           NullResponse))
    /\ usageIdCounter' = usageIdCounter + 1
    /\ report' = NoReport
    /\ UNCHANGED <<flowVars, envVars, agentVars, gw, now, reqs, paymentMethod,
                   currentAtxpSteps>>

Tick ==
    /\ now < MaxTime
    /\ now' = now + 1
    /\ report' = NoReport
    /\ UNCHANGED <<storageVars, flowVars, envVars, agentVars, gw, reqs, paymentMethod,
                   currentAtxpSteps>>

----------------------------------------------------------------------------
(* MoluAbiMcpClient.callTool, step by step, in its three revisions         *)

\* getMockResponse: "Mock response for <tool>: Operation completed
\* successfully in demo mode."
MockResponse ==
    Obj("absent", Content(Str({"ok"})), Absent, Absent, "absent", Absent, 0,
        NoCost)

\* toolCall.arguments: the fields the caller may supply, "absent" when not.
NoArgs == [agentId |-> "absent", apiKey |-> "absent"]

\* process.env.MOLUABI_MCP_API_KEY when it is set.
ConfiguredKey == "server-key"

\* { apiKey, ...toolCall.arguments }: a later key replaces an earlier one.
authenticatedArguments(key, arguments) ==
    [agentId |-> arguments.agentId,
     apiKey |-> IF arguments.apiKey # "absent" THEN arguments.apiKey ELSE key]

\* One call of callTool: the requests it has issued per route, whether
\* atxpService.callMcpTool was invoked and failed, what the remote server
\* answered last, what callTool returned or threw, and the trace the handler
\* built from the returned value.
IdleCall ==
    [rev |-> "none", pc |-> "idle", atxpTried |-> FALSE, atxpFailed |-> FALSE,
     attempts |-> [atxp |-> 0, http |-> 0, stdio |-> 0], received |-> NoOutcome, outcome |-> NoOutcome,
     flow |-> NoFlow, callerArgs |-> NoArgs, sentArgs |-> NoArgs]

\* The ATXP-first revision before its first await: useAtxp is always true,
\* and callMcpTool throws at once when the SDK is unavailable, which the
\* inner catch turns into the direct HTTP request.
callToolFallback(connected, key, sdk) ==
    IF ~connected THEN Thrown(Err(ErrNotConnected))
    ELSE IF ~key THEN Thrown(Err(ErrNoKey))
    ELSE IF sdk THEN Sent("atxp")
    ELSE Sent("http")

CallToolStart(rev, arguments) ==
    LET reached == client /\ apiKey
        c == IF rev = "current"
             THEN callTool(client, apiKey, paymentMethod, atxpAvailable)
             ELSE callToolFallback(client, apiKey, atxpAvailable)
        tried == reached /\ (rev = "fallback" \/ paymentMethod = "atxp")
        started == [IdleCall EXCEPT !.rev = rev, !.atxpTried = tried,
                                    !.atxpFailed = tried /\ ~atxpAvailable,
                                    !.callerArgs = arguments]
        sending == [started EXCEPT
                      !.sentArgs = authenticatedArguments(ConfiguredKey,
                                                          arguments)]
    IN  /\ gw.pc = "idle"
        /\ gw' = IF rev = "stdio"
                 THEN (IF ~client
                       THEN [IdleCall EXCEPT !.rev = rev, !.pc = "done",
                                             !.callerArgs = arguments,
                                             !.outcome = Ok(MockResponse)]
                       ELSE [IdleCall EXCEPT !.rev = rev, !.pc = "stdio",
                                             !.callerArgs = arguments,
                                             !.sentArgs = arguments,
                                             !.attempts.stdio = 1])
                 ELSE IF c.sent = "none"
                 THEN [started EXCEPT !.pc = "done", !.outcome = Fail(c.err)]
                 ELSE IF c.sent = "atxp"
                 THEN [sending EXCEPT !.pc = "atxp", !.attempts.atxp = 1]
                 ELSE [sending EXCEPT !.pc = "http", !.attempts.http = 1]
        /\ UNCHANGED <<storageVars, flowVars, envVars, agentVars, now, reqs,
                       paymentMethod, currentAtxpSteps, report>>

\* atxpService.callMcpTool settles.
CallToolAtxpDone(o) ==
    /\ gw.pc = "atxp"
    /\ o \in OutcomesOf(Sent("atxp"))
    /\ gw' = IF o.ok \/ gw.rev = "current"
             THEN [gw EXCEPT !.pc = "done", !.received = o, !.outcome = o,
                             !.atxpFailed = ~o.ok]
             ELSE [gw EXCEPT !.pc = "http", !.received = o,
                             !.atxpFailed = TRUE, !.attempts.http = @ + 1]
    /\ UNCHANGED <<storageVars, flowVars, envVars, agentVars, now, reqs,
                   paymentMethod, currentAtxpSteps, report>>

\* A gateway that repeats a failed HTTP request once.
CallToolHttpDone_m(o) ==
    /\ gw.pc = "http"
    /\ o \in OutcomesOf(Sent("http"))
    /\ gw' = IF ~o.ok /\ gw.attempts.http < 2
             THEN [gw EXCEPT !.received = o, !.attempts.http = @ + 1]
             ELSE [gw EXCEPT !.pc = "done", !.received = o, !.outcome = o]
    /\ UNCHANGED <<storageVars, flowVars, envVars, agentVars, now, reqs,
                   paymentMethod, currentAtxpSteps, report>>

\* fetch(.../mcp/call) settles: the parsed body, or the thrown error.
CallToolHttpDone(o) ==
    /\ gw.pc = "http"
    /\ o \in OutcomesOf(Sent("http"))
    /\ gw' = [gw EXCEPT !.pc = "done", !.received = o, !.outcome = o]
    /\ UNCHANGED <<storageVars, flowVars, envVars, agentVars, now, reqs,
                   paymentMethod, currentAtxpSteps, report>>

\* this.client.callTool(toolCall) of the stdio revision settles.
CallToolStdioDone(o) ==
    /\ gw.pc = "stdio"
    /\ o \in OutcomesOf(Sent("stdio"))
    /\ gw' = [gw EXCEPT !.pc = "done", !.received = o, !.outcome = o]
    /\ UNCHANGED <<storageVars, flowVars, envVars, agentVars, now, reqs,
                   paymentMethod, currentAtxpSteps, report>>

\* The handler builds the trace from the value callTool returned.
CallToolClassified ==
    /\ gw.pc = "done" /\ gw.outcome.ok
    /\ gw' = [gw EXCEPT !.pc = "classified",
                        !.flow = createAtxpFlow("get_agent",
                                                ToolsCost(gw.outcome),
                                                gw.outcome.resp)]
    /\ UNCHANGED <<storageVars, flowVars, envVars, agentVars, now, reqs,
                   paymentMethod, currentAtxpSteps, report>>

----------------------------------------------------------------------------
(* MemStorage: agents and access grants                                    *)

MaxAgents == 2

AgentIdRange == 1..MaxAgents

\* A field that a Partial<InsertAgent> leaves out.
Keep == "-"
Grantees == {"user_b"}
AgentUpdates == {[name |-> Keep, ownerId |-> "user_b"]}

NoAgents == {}
NoAccess == [u \in Users |-> <<>>]

\* this.agents.get(id)
HasAgent(ags, id) == \E a \in ags : a.id = id
AgentOf(ags, id) == CHOOSE a \in ags : a.id = id

\* (this.agentAccess.get(userId) || []).some(access => access.agentId === id)
HasGrant(acc, userId, agentId) ==
    \E i \in 1..Len(acc[userId]) : acc[userId][i].agentId = agentId

\* undefined, where an Agent is expected.
NoAgent == [id |-> 0, ownerId |-> "none", name |-> "none", createdAt |-> NoDate,
            updatedAt |-> NoDate]

\* The method called last, the agent and the caller it was called with,
\* and what it returned: true or false (an agent or undefined), the agent,
\* the list of agents.
Answer(op, id, userId, result, agent, list) ==
    [op |-> op, id |-> id, userId |-> userId, result |-> result,
     agent |-> agent, list |-> list]
NoAnswer == Answer("none", 0, "none", FALSE, NoAgent, <<>>)

\* Array.from(this.agents.values()): a Map lists its values in the order of
\* first insertion, which is the order of the ids.
RECURSIVE AgentValues(_)
AgentValues(ags) ==
    IF ags = {} THEN <<>>
    ELSE LET first == CHOOSE a \in ags : \A b \in ags : a.id <= b.id
         IN  <<first>> \o AgentValues(ags \ {first})

\* A lookup that forgets the access check.
getAgent_m(ags, acc, id, userId) ==
    IF ~HasAgent(ags, id) THEN NoAgent ELSE AgentOf(ags, id)

getAgent(ags, acc, id, userId) ==
    IF ~HasAgent(ags, id) THEN NoAgent
    ELSE IF AgentOf(ags, id).ownerId = userId THEN AgentOf(ags, id)
    ELSE IF HasGrant(acc, userId, id) THEN AgentOf(ags, id)
    ELSE NoAgent

getUserAgents(ags, acc, userId) ==
    LET ownedAgents == SelectSeq(AgentValues(ags),
                                 LAMBDA agent : agent.ownerId = userId)
        accessibleAgentIds == [i \in 1..Len(acc[userId]) |->
                                  acc[userId][i].agentId]
        existing == SelectSeq(accessibleAgentIds, LAMBDA id : HasAgent(ags, id))
        accessibleAgents == [i \in 1..Len(existing) |-> AgentOf(ags, existing[i])]
    IN  ownedAgents \o accessibleAgents

createAgent(ags, id, clock, agent) ==
    ags \cup {[id |-> id, ownerId |-> agent.ownerId, name |-> agent.name,
               createdAt |-> clock, updatedAt |-> clock]}

\* An update that any user may make.
updateAgent_m(ags, id, userId, updates, clock) ==
    IF ~HasAgent(ags, id)
    THEN [agents |-> ags, result |-> FALSE]
    ELSE LET agent == AgentOf(ags, id)
             updatedAgent ==
                 [agent EXCEPT
                    !.name = IF updates.name = Keep THEN @ ELSE updates.name,
                    !.ownerId = IF updates.ownerId = Keep THEN @
                                ELSE updates.ownerId,
                    !.updatedAt = clock]
         IN  [agents |-> (ags \ {agent}) \cup {updatedAgent}, result |-> TRUE]

updateAgent(ags, id, userId, updates, clock) ==
    IF ~HasAgent(ags, id) \/ AgentOf(ags, id).ownerId # userId
    THEN [agents |-> ags, result |-> FALSE]
    ELSE LET agent == AgentOf(ags, id)
             updatedAgent ==
                 [agent EXCEPT
                    !.name = IF updates.name = Keep THEN @ ELSE updates.name,
                    !.ownerId = IF updates.ownerId = Keep THEN @
                                ELSE updates.ownerId,
                    !.updatedAt = clock]
         IN  [agents |-> (ags \ {agent}) \cup {updatedAgent}, result |-> TRUE]

\* A delete that leaves the access lists alone.
deleteAgent_m(ags, acc, id, userId) ==
    IF ~HasAgent(ags, id) \/ AgentOf(ags, id).ownerId # userId
    THEN [agents |-> ags, agentAccess |-> acc, result |-> FALSE]
    ELSE [agents |-> ags \ {AgentOf(ags, id)},
          agentAccess |-> acc,
          result |-> TRUE]

deleteAgent(ags, acc, id, userId) ==
    IF ~HasAgent(ags, id) \/ AgentOf(ags, id).ownerId # userId
    THEN [agents |-> ags, agentAccess |-> acc, result |-> FALSE]
    ELSE [agents |-> ags \ {AgentOf(ags, id)},
          agentAccess |->
              [u \in DOMAIN acc |->
                  SelectSeq(acc[u], LAMBDA access : access.agentId # id)],
          result |-> TRUE]

addUserToAgent(ags, acc, agentId, userId, ownerId, clock) ==
    IF ~HasAgent(ags, agentId) \/ AgentOf(ags, agentId).ownerId # ownerId
    THEN [agentAccess |-> acc, result |-> FALSE]
    ELSE IF HasGrant(acc, userId, agentId)
    THEN [agentAccess |-> acc, result |-> FALSE]
    ELSE [agentAccess |->
              [acc EXCEPT ![userId] =
                  Append(@, [id |-> Len(@) + 1, agentId |-> agentId,
                             userId |-> userId, grantedAt |-> clock])],
          result |-> TRUE]

removeUserFromAgent(ags, acc, agentId, userId, ownerId) ==
    IF ~HasAgent(ags, agentId) \/ AgentOf(ags, agentId).ownerId # ownerId
    THEN [agentAccess |-> acc, result |-> FALSE]
    ELSE LET filteredAccess ==
                 SelectSeq(acc[userId], LAMBDA access : access.agentId # agentId)
         IN  IF Len(filteredAccess) = Len(acc[userId])
             THEN [agentAccess |-> acc, result |-> FALSE]
             ELSE [agentAccess |-> [acc EXCEPT ![userId] = filteredAccess],
                   result |-> TRUE]

CreateAgent(owner, name) ==
    /\ agentIdCounter <= MaxAgents
    /\ agents' = createAgent(agents, agentIdCounter, now,
                             [ownerId |-> owner, name |-> name])
    /\ agentIdCounter' = agentIdCounter + 1
    /\ answer' = Answer("createAgent", agentIdCounter, owner, TRUE,
                        AgentOf(agents', agentIdCounter), <<>>)
    /\ UNCHANGED <<agentAccess, storageVars, flowVars, envVars, gw, now, reqs,
                   paymentMethod, currentAtxpSteps, report>>

UpdateAgent(id, userId, updates) ==
    /\ agents' = updateAgent(agents, id, userId, updates, now).agents
    /\ answer' = LET done == updateAgent(agents, id, userId, updates, now)
                 IN  Answer("updateAgent", id, userId, done.result,
                            IF done.result THEN AgentOf(done.agents, id)
                            ELSE NoAgent, <<>>)
    /\ UNCHANGED <<agentAccess, agentIdCounter, storageVars, flowVars, envVars,
                   gw, now, reqs, paymentMethod, currentAtxpSteps, report>>

DeleteAgent(id, userId) ==
    /\ agents' = deleteAgent(agents, agentAccess, id, userId).agents
    /\ agentAccess' = deleteAgent(agents, agentAccess, id, userId).agentAccess
    /\ answer' = Answer("deleteAgent", id, userId,
                        deleteAgent(agents, agentAccess, id, userId).result,
                        NoAgent, <<>>)
    /\ UNCHANGED <<agentIdCounter, storageVars, flowVars, envVars, gw, now,
                   reqs, paymentMethod, currentAtxpSteps, report>>

AddUserToAgent(agentId, userId, ownerId) ==
    /\ agentAccess' = addUserToAgent(agents, agentAccess, agentId, userId,
                                     ownerId, now).agentAccess
    /\ answer' = Answer("addUserToAgent", agentId, ownerId,
                        addUserToAgent(agents, agentAccess, agentId, userId,
                                       ownerId, now).result,
                        NoAgent, <<>>)
    /\ UNCHANGED <<agents, agentIdCounter, storageVars, flowVars, envVars, gw,
                   now, reqs, paymentMethod, currentAtxpSteps, report>>

RemoveUserFromAgent(agentId, userId, ownerId) ==
    /\ agentAccess' = removeUserFromAgent(agents, agentAccess, agentId, userId,
                                          ownerId).agentAccess
    /\ answer' = Answer("removeUserFromAgent", agentId, ownerId,
                        removeUserFromAgent(agents, agentAccess, agentId,
                                            userId, ownerId).result,
                        NoAgent, <<>>)
    /\ UNCHANGED <<agents, agentIdCounter, storageVars, flowVars, envVars, gw,
                   now, reqs, paymentMethod, currentAtxpSteps, report>>

GetAgent(id, userId) ==
    /\ answer' = Answer("getAgent", id, userId,
                        getAgent(agents, agentAccess, id, userId) # NoAgent,
                        getAgent(agents, agentAccess, id, userId), <<>>)
    /\ UNCHANGED <<agents, agentAccess, agentIdCounter, storageVars, flowVars,
                   envVars, gw, now, reqs, paymentMethod, currentAtxpSteps,
                   report>>

GetUserAgents(userId) ==
    /\ answer' = Answer("getUserAgents", 0, userId, TRUE, NoAgent,
                        getUserAgents(agents, agentAccess, userId))
    /\ UNCHANGED <<agents, agentAccess, agentIdCounter, storageVars, flowVars,
                   envVars, gw, now, reqs, paymentMethod, currentAtxpSteps,
                   report>>

----------------------------------------------------------------------------
(* createAtxpFlow applied to one response                                  *)

Classify ==
    /\ flowOut = NoFlow
    /\ flowOut' = createAtxpFlow("tool", flowCost, flowIn)
    /\ UNCHANGED <<flowIn, flowCost, storageVars, envVars, agentVars, gw, now, reqs,
                   paymentMethod, currentAtxpSteps, report>>

----------------------------------------------------------------------------
(* Specifications                                                          *)

\* The state after construction and registerRoutes: connect() and
\* initialize() have succeeded or failed, nothing has been requested.
Init ==
    /\ flowIn = NullResponse /\ flowCost = NumCost(0) /\ flowOut = NoFlow
    /\ ledger = <<>> /\ usageIdCounter = 1 /\ now = 0
    /\ reqs = [r \in ReqIds |-> IdleReq]
    /\ paymentMethod = "apikey"
    /\ client \in BOOLEAN /\ apiKey \in BOOLEAN /\ atxpAvailable \in BOOLEAN
    /\ account = "ok"
    /\ methodReply = NoReply
    /\ currentAtxpSteps = <<>>
    /\ report = NoReport
    /\ agents = NoAgents /\ agentAccess = NoAccess /\ agentIdCounter = 1
    /\ answer = NoAnswer
    /\ gw = IdleCall

Next ==
    \/ \E r \in ReqIds, u \in RequestUsers, tool \in ToolNames,
          args \in SUBSET ArgNames :
          ToolsReceive(r, u, tool, args)
    \/ \E r \in ReqIds : \E o \in OutcomesOf(reqs[r].call) : ToolsGatewayDone(r, o)
    \/ \E r \in ReqIds : ToolsRespond(r)
    \/ \E r \in ReqIds, route \in {"POST", "PUT"}, u \in RequestUsers :
          \E args \in AgentArgChoices(route) : AgentsReceive(r, route, u, args)
    \/ \E r \in ReqIds : \E o \in OutcomesOf(reqs[r].call) : AgentsGatewayDone(r, o)
    \/ \E r \in ReqIds : AgentsRespond(r)
    \/ \E r \in ReqIds, u \in RequestUsers : PricingReceive(r, u)
    \/ \E r \in ReqIds : \E o \in OutcomesOf(reqs[r].call) : PricingGatewayDone(r, o)
    \/ \E r \in ReqIds : PricingRespond(r)
    \/ \E method \in ValidPaymentMethods : PostPaymentMethod(method)

Spec == Init /\ [][Next]_vars

\* The handler revision that validates and processes payments.
InitLegacy ==
    /\ flowIn = NullResponse /\ flowCost = NumCost(0) /\ flowOut = NoFlow
    /\ ledger = <<>> /\ usageIdCounter = 1 /\ now = 0
    /\ reqs = [r \in ReqIds |-> IdleReq]
    /\ paymentMethod = "apikey"
    /\ client \in BOOLEAN /\ apiKey \in BOOLEAN /\ atxpAvailable = TRUE
    /\ account \in {"none", "ok"}
    /\ methodReply = NoReply
    /\ currentAtxpSteps = <<>>
    /\ report = NoReport
    /\ agents = NoAgents /\ agentAccess = NoAccess /\ agentIdCounter = 1
    /\ answer = NoAnswer
    /\ gw = IdleCall

NextLegacy ==
    \/ \E r \in ReqIds, u \in RequestUsers, tool \in ToolNames,
          args \in SUBSET ArgNames :
          ToolsV1Receive(r, u, tool, args)
    \/ \E r \in ReqIds : ToolsV1Validated(r)
    \/ \E r \in ReqIds : \E o \in OutcomesOf(reqs[r].call) : ToolsV1GatewayDone(r, o)
    \/ \E r \in ReqIds, paid \in BOOLEAN : ToolsV1PaymentDone(r, paid)
    \/ \E r \in ReqIds : ToolsV1Respond(r)

SpecLegacy == InitLegacy /\ [][NextLegacy]_vars

\* The same revision serving one request more than MaxReq, so that two
\* handlers are under way at once.
ConcurrentReqIds == 1..(MaxReq + 1)

InitConcurrent ==
    /\ flowIn = NullResponse /\ flowCost = NumCost(0) /\ flowOut = NoFlow
    /\ ledger = <<>> /\ usageIdCounter = 1 /\ now = 0
    /\ reqs = [r \in ConcurrentReqIds |-> IdleReq]
    /\ paymentMethod = "apikey"
    /\ client = TRUE /\ apiKey = TRUE /\ atxpAvailable = TRUE
    /\ account \in {"none", "ok"}
    /\ methodReply = NoReply
    /\ currentAtxpSteps = <<>>
    /\ report = NoReport
    /\ agents = NoAgents /\ agentAccess = NoAccess /\ agentIdCounter = 1
    /\ answer = NoAnswer
    /\ gw = IdleCall

NextConcurrent ==
    \/ \E r \in ConcurrentReqIds, u \in RequestUsers, tool \in ToolNames,
          args \in SUBSET ArgNames :
          ToolsV1Receive(r, u, tool, args)
    \/ \E r \in ConcurrentReqIds : ToolsV1Validated(r)
    \/ \E r \in ConcurrentReqIds :
          \E o \in OutcomesOf(reqs[r].call) : ToolsV1GatewayDone(r, o)
    \/ \E r \in ConcurrentReqIds, paid \in BOOLEAN : ToolsV1PaymentDone(r, paid)
    \/ \E r \in ConcurrentReqIds : ToolsV1Respond(r)

SpecConcurrent == InitConcurrent /\ [][NextConcurrent]_vars

\* One call of callTool in each revision of the gateway.
InitGateway ==
    /\ flowIn = NullResponse /\ flowCost = NumCost(0) /\ flowOut = NoFlow
    /\ ledger = <<>> /\ usageIdCounter = 1 /\ now = 0
    /\ reqs = [r \in ReqIds |-> IdleReq]
    /\ paymentMethod = "apikey"
    /\ client \in BOOLEAN /\ apiKey \in BOOLEAN /\ atxpAvailable \in BOOLEAN
    /\ account = "ok"
    /\ methodReply = NoReply
    /\ currentAtxpSteps = <<>>
    /\ report = NoReport
    /\ agents = NoAgents /\ agentAccess = NoAccess /\ agentIdCounter = 1
    /\ answer = NoAnswer
    /\ gw = IdleCall

NextGateway ==
    \/ \E method \in (ValidPaymentMethods \cup {"bitcoin", "absent"}) : PostPaymentMethod(method)
    \/ GetPaymentMethod
    \* "current": mcp-client.ts, one route chosen by the payment method.
    \* "fallback": the revision that tries ATXP first and then direct HTTP.
    \* "stdio": the revision that talks to the server through the MCP SDK.
    \/ \E rev \in {"current", "fallback", "stdio"},
          arguments \in [agentId : {"absent", "42"},
                         apiKey : {"absent", "caller-key"}] :
          CallToolStart(rev, arguments)
    \/ \E o \in OutcomesOf(Sent("atxp")) : CallToolAtxpDone(o)
    \/ \E o \in OutcomesOf(Sent("http")) : CallToolHttpDone(o)
    \/ \E o \in OutcomesOf(Sent("stdio")) : CallToolStdioDone(o)
    \/ CallToolClassified

SpecGateway == InitGateway /\ [][NextGateway]_vars

\* The agents and access grants of MemStorage and the reads on them.
InitAgents ==
    /\ flowIn = NullResponse /\ flowCost = NumCost(0) /\ flowOut = NoFlow
    /\ ledger = <<>> /\ usageIdCounter = 1 /\ now = 0
    /\ reqs = [r \in ReqIds |-> IdleReq]
    /\ paymentMethod = "apikey"
    /\ client = TRUE /\ apiKey = TRUE /\ atxpAvailable = TRUE
    /\ account = "ok"
    /\ methodReply = NoReply
    /\ currentAtxpSteps = <<>>
    /\ report = NoReport
    /\ agents = NoAgents /\ agentAccess = NoAccess /\ agentIdCounter = 1
    /\ answer = NoAnswer
    /\ gw = IdleCall

NextAgents ==
    \/ \E owner \in RequestUsers : CreateAgent(owner, "a")
    \/ \E id \in AgentIdRange, u \in Users, updates \in AgentUpdates :
          UpdateAgent(id, u, updates)
    \/ \E id \in AgentIdRange, u \in Users : DeleteAgent(id, u)
    \/ \E id \in AgentIdRange, u \in Grantees, owner \in Users :
          AddUserToAgent(id, u, owner)
    \/ \E id \in AgentIdRange, u \in Grantees, owner \in Users :
          RemoveUserFromAgent(id, u, owner)
    \/ \E id \in AgentIdRange, u \in Users : GetAgent(id, u)
    \/ \E u \in Users : GetUserAgents(u)

SpecAgents == InitAgents /\ [][NextAgents]_vars

\* The rows recorded while agents are managed.
StorageRows ==
    {[cost |-> 0, status |-> "error"], [cost |-> 50, status |-> "success"]}

\* Every operation of the storage layer.
InitStorage ==
    /\ flowIn = NullResponse /\ flowCost = NumCost(0) /\ flowOut = NoFlow
    /\ ledger = <<>> /\ usageIdCounter = 1 /\ now = 0
    /\ reqs = [r \in ReqIds |-> IdleReq]
    /\ paymentMethod = "apikey"
    /\ client = TRUE /\ apiKey = TRUE /\ atxpAvailable = TRUE
    /\ account = "ok"
    /\ methodReply = NoReply
    /\ currentAtxpSteps = <<>>
    /\ report = NoReport
    /\ agents = NoAgents /\ agentAccess = NoAccess /\ agentIdCounter = 1
    /\ answer = NoAnswer
    /\ gw = IdleCall

NextStorage ==
    \/ \E u \in RequestUsers, row \in StorageRows :
          RecordUsage(u, "get_agent", row.cost, row.status)
    \/ \E u \in RequestUsers : GetUsage(u, NoDate, NoDate)
    \/ \E owner \in RequestUsers : CreateAgent(owner, "a")
    \/ \E id \in AgentIdRange, u \in Users, updates \in AgentUpdates :
          UpdateAgent(id, u, updates)
    \/ \E id \in AgentIdRange, u \in Users : DeleteAgent(id, u)
    \/ \E id \in AgentIdRange, u \in Grantees, owner \in Users :
          AddUserToAgent(id, u, owner)
    \/ \E id \in AgentIdRange, u \in Grantees, owner \in Users :
          RemoveUserFromAgent(id, u, owner)

SpecStorage == InitStorage /\ [][NextStorage]_vars

\* The classifier alone, on every response.
InitFlow ==
    /\ flowIn \in Responses /\ flowCost \in {NumCost(1), NumCost(50)} /\ flowOut = NoFlow
    /\ ledger = <<>> /\ usageIdCounter = 1 /\ now = 0
    /\ reqs = [r \in ReqIds |-> IdleReq]
    /\ paymentMethod = "apikey"
    /\ client = TRUE /\ apiKey = TRUE /\ atxpAvailable = TRUE
    /\ account = "ok"
    /\ methodReply = NoReply
    /\ currentAtxpSteps = <<>>
    /\ report = NoReport
    /\ agents = NoAgents /\ agentAccess = NoAccess /\ agentIdCounter = 1
    /\ answer = NoAnswer
    /\ gw = IdleCall

NextFlow == Classify

SpecFlow == InitFlow /\ [][NextFlow]_vars

\* The storage layer alone.
InitStore ==
    /\ flowIn = NullResponse /\ flowCost = NumCost(0) /\ flowOut = NoFlow
    /\ ledger = <<>> /\ usageIdCounter = 1 /\ now = 0
    /\ reqs = [r \in ReqIds |-> IdleReq]
    /\ paymentMethod = "apikey"
    /\ client = TRUE /\ apiKey = TRUE /\ atxpAvailable = TRUE
    /\ account = "ok"
    /\ methodReply = NoReply
    /\ currentAtxpSteps = <<>>
    /\ report = NoReport
    /\ agents = NoAgents /\ agentAccess = NoAccess /\ agentIdCounter = 1
    /\ answer = NoAnswer
    /\ gw = IdleCall

NextStore ==
    \/ \E u \in Users, row \in StoredRows :
          RecordUsage(u, "get_agent", row.cost, row.status)
    \/ Tick
    \/ \E u \in Users, s \in Dates, e \in Dates : GetUsage(u, s, e)

SpecStore == InitStore /\ [][NextStore]_vars

----------------------------------------------------------------------------
(* Properties                                                              *)

Answered(r) == reqs[r].pc = "responded"
Settled(r) == reqs[r].pc \in {"recorded", "responded"}

\* C1: every tool-invocation request that has been answered has appended
\* exactly one usage record to the ledger, on the success path and on
\* every failure path.
C1_ExactlyOneRecord ==
    \A r \in ReqIds : Answered(r) => Cardinality(WrittenBy(r)) = 1

\* C2: a handler answers only after its ledger write has completed: in the
\* step that sends the answer the request's row is already in the ledger.
C2_ResponseAfterLedgerWrite ==
    [][\A r \in ReqIds :
         (reqs[r].pc # "responded" /\ reqs'[r].pc = "responded")
            => WrittenBy(r) # {}]_vars

\* C3: a response whose derived text contains "[PAYMENT_FAILED]" gets a
\* trace whose payment-confirmation step is a warning and whose
\* operation-complete step is a success, whatever its other fields.
C3_MarkerGivesWarningAndSuccess ==
    (flowOut # NoFlow /\ hasPaymentFailedPrefix(flowIn)) =>
        /\ ~flowOut.threw
        /\ flowOut.steps[4].id = "payment-confirmation"
        /\ flowOut.steps[4].status = "warning"
        /\ flowOut.steps[5].id = "operation-complete"
        /\ flowOut.steps[5].status = "success"

\* The responses of C4: success === false, the text taken from an error
\* field that says unauthorized, no content array, no agents.success.
ExplicitFailure(r) ==
    /\ r.kind = "object"
    /\ r.success = "false"
    /\ r.content = NoContent
    /\ r.agentsSuccess # "true"
    /\ r.message = Absent
    /\ r.error.k = "str" /\ "Unauthorized" \in r.error.t

ReturnedRows ==
    {i \in 1..Len(ledger) :
        /\ ledger[i].req \in ReqIds
        /\ reqs[ledger[i].req].ep \in {"tools", "agents"}
        /\ reqs[ledger[i].req].outcome.ok}

HasNumericCost(resp) == resp.kind = "object" /\ resp.cost.k = "num"

\* C5 as claimed: when the gateway call succeeds the row carries the
\* response's numeric cost, or the tool's expected cost and the status
\* "success" when the response has no numeric cost.
C5_ExpectedCostFallback ==
    \A i \in ReturnedRows :
        LET resp == reqs[ledger[i].req].outcome.resp
        IN  IF HasNumericCost(resp)
            THEN ledger[i].cost = NumToString(resp.cost.n)
            ELSE /\ ledger[i].cost = NumToString(ExpectedCost)
                 /\ ledger[i].status = "success"

\* C5 as amended: on the tools route the row of a call that returned
\* carries the response's numeric cost as its decimal string, and "0" when
\* the response has no numeric cost (there is no fallback to an expected
\* cost); its status is "success".
C5_LedgerCostFromResponse ==
    \A i \in ReturnedRows :
        LET resp == reqs[ledger[i].req].outcome.resp
        IN  reqs[ledger[i].req].ep = "tools" =>
                /\ ledger[i].cost = IF HasNumericCost(resp)
                                    THEN NumToString(resp.cost.n)
                                    ELSE <<"0">>
                /\ ledger[i].status = "success"

C5_Witness ==
    \E i \in ReturnedRows :
        /\ reqs[ledger[i].req].ep = "tools"
        /\ reqs[ledger[i].req].outcome.resp = SuccessWithAgent
        /\ ledger[i].cost = <<"0">>
        /\ ledger[i].status = "success"
        /\ Answered(ledger[i].req)

\* The requests whose gateway call failed before a response was parsed.
TransportFailed(r) == Settled(r) /\ ~reqs[r].outcome.ok

\* The row of a failed call: status "error", no response, the failure text.
ErrorRowOf(r, text) ==
    \E i \in WrittenBy(r) :
        /\ ledger[i].status = "error"
        /\ ledger[i].response = NullResponse
        /\ ledger[i].errorMessage = text

\* C6 as claimed: after a transport failure the classifier has not been
\* invoked for the request and the ledger holds its row with status
\* "error", response null and the raw failure text.
C6_TransportFailureSkipsClassifier ==
    \A r \in ReqIds :
        (Answered(r) /\ ~reqs[r].outcome.ok) =>
            /\ reqs[r].classified = 0
            /\ ErrorRowOf(r, reqs[r].outcome.err.message)

\* C6 as amended: after a transport failure on the tools and pricing
\* routes createAtxpFlow has still been called once, the request has one
\* row with status "error", response null and the message of the thrown
\* Error (the route's fallback text when the thrown value is no Error), and
\* the answer is a 500 without a trace.
C6_TransportFailureRow ==
    \A r \in ReqIds :
        (TransportFailed(r) /\ reqs[r].ep \in {"tools", "pricing"}) =>
            LET err == reqs[r].outcome.err
                text == IF err.isError THEN err.message
                        ELSE IF reqs[r].ep = "tools" THEN "MCP call failed"
                        ELSE "Pricing call failed"
            IN  /\ reqs[r].classified = 1
                /\ Cardinality(WrittenBy(r)) = 1
                /\ ErrorRowOf(r, text)
                /\ Answered(r) => /\ reqs[r].http = 500
                                  /\ reqs[r].body = ErrorBody(text)

C6_Witness ==
    \E r \in ReqIds :
        /\ Answered(r)
        /\ reqs[r].ep = "tools"
        /\ reqs[r].outcome = Fail(Err(ErrStatus503))
        /\ ErrorRowOf(r, ErrStatus503)
        /\ reqs[r].classified = 1

\* The rows a report over [startDate, endDate] for userId has to hold.
InRange(row, userId, startDate, endDate) ==
    /\ row.userId = userId
    /\ startDate = NoDate \/ startDate <= row.createdAt
    /\ endDate = NoDate \/ row.createdAt <= endDate

\* The thousandths a stored decimal string denotes.
CostValue(c) == CHOOSE n \in {0, 50, 1500} : NumToString(n) = c

RECURSIVE SumOfCosts(_, _)
SumOfCosts(l, S) ==
    IF S = {} THEN 0
    ELSE LET i == CHOOSE x \in S : TRUE
         IN  CostValue(l[i].cost) + SumOfCosts(l, S \ {i})

FlowStepIds ==
    <<"auth-start", "payment-preauth", "tool-execution-payment",
      "payment-confirmation", "operation-complete">>

\* C8: the trace sent with the answer of a completed invocation has exactly
\* five steps, in the order authentication, pre-authorization,
\* execution+payment, payment confirmation, completion, and totalSteps = 5.
C8_TraceHasFiveSteps ==
    \A r \in ReqIds :
        (Answered(r) /\ reqs[r].body.hasFlow) =>
            LET trace == reqs[r].body.atxpFlow
            IN  /\ Len(trace.steps) = 5
                /\ trace.totalSteps = 5
                /\ \A k \in 1..5 : trace.steps[k].id = FlowStepIds[k]

\* C9: when the gateway call returned, the status of the request's ledger
\* row is "success" exactly when the execution and completion steps of its
\* trace are successes, and "error" otherwise.
C9_LedgerStatusIsVerdict ==
    \A r \in ReqIds :
        (Settled(r) /\ reqs[r].outcome.ok /\ reqs[r].ep \in {"tools", "agents"})
            => \A i \in WrittenBy(r) :
                  LET verdict == /\ reqs[r].flow.steps[3].status = "success"
                                 /\ reqs[r].flow.steps[5].status = "success"
                  IN  ledger[i].status = IF verdict THEN "success" ELSE "error"

\* C10: a request that lacks an argument its tool requires is answered
\* with 400 before any gateway call, and no ledger row is written for it.
C10_MissingArgumentRejected ==
    \A r \in ReqIds :
        (reqs[r].pc # "idle" /\ reqs[r].ep \in {"tools", "agents"}
           /\ ~(RequiredArgs(reqs[r].toolName) \subseteq reqs[r].args)) =>
            /\ reqs[r].gatewayCalls = 0
            /\ WrittenBy(r) = {}
            /\ Answered(r) => reqs[r].http = 400

\* The steps the payment service logs for one request on its own.
OwnServiceSteps(cost, paid) ==
    processPaymentEnd(processPaymentStart(validatePaymentSteps, cost), paid)

\* C11: under every interleaving of concurrent requests the steps answered
\* to a request are exactly the steps produced for that request: those the
\* payment service logged for it followed by those its handler logged.
C11_TraceIsOwnSteps ==
    \A r \in DOMAIN reqs :
        (reqs[r].pc = "responded" /\ reqs[r].body.hasFlow) =>
            \E paid \in BOOLEAN :
                reqs[r].body.atxpFlow.steps =
                    OwnServiceSteps(reqs[r].actualCost, paid) \o reqs[r].flowSteps

\* C12: after every storage operation (recording a usage, creating, updating
\* or deleting an agent, granting or revoking access, reading a usage report)
\* the ledger is the previous ledger, row for row, with at most new rows
\* appended at its end.
C12_LedgerAppendOnly ==
    [][/\ Len(ledger') >= Len(ledger)
       /\ \A i \in 1..Len(ledger) : ledger'[i] = ledger[i]]_vars

\* Two different rows were recorded, a report was read, and an agent was
\* created, granted to a user and deleted.
C12_Witness ==
    /\ Len(ledger) = 2 /\ ledger[1].status # ledger[2].status
    /\ report # NoReport
    /\ agentIdCounter > 2 /\ Cardinality(agents) = 1
    /\ \E u \in Users : Len(agentAccess[u]) = 1

\* C13: on every tool-invocation endpoint an answered request whose gateway
\* call failed carries HTTP 500 and the raw error message, and one whose
\* gateway call succeeded carries a success status (200, or 201 for a
\* creation) and a body with the atxpFlow trace, whatever the trace says.
C13_FailureChannels ==
    \A r \in ReqIds :
        (Answered(r) /\ reqs[r].ep \in {"tools", "agents"}) =>
            IF reqs[r].outcome.ok
            THEN /\ reqs[r].http \in {200, 201}
                 /\ reqs[r].body.hasFlow
            ELSE /\ reqs[r].http = 500
                 /\ ~reqs[r].body.hasFlow
                 /\ reqs[r].body.error = reqs[r].outcome.err.message

\* The outbound requests one call of callTool has issued.
TotalAttempts == gw.attempts.atxp + gw.attempts.http + gw.attempts.stdio

\* C14 as claimed: a call of callTool issues at most one outbound request.
C14_AtMostOneRequest == TotalAttempts <= 1

\* C14: a call of callTool issues at most one request on each route and
\* never repeats a request; only the ATXP-first revision issues a second
\* request, the direct HTTP one, and only after its ATXP request failed.
C14_OneRequestPerRoute ==
    /\ gw.attempts.atxp <= 1 /\ gw.attempts.http <= 1 /\ gw.attempts.stdio <= 1
    /\ TotalAttempts > 1 =>
           /\ gw.rev = "fallback" /\ gw.atxpFailed
           /\ gw.attempts.atxp = 1 /\ gw.attempts.http = 1
           /\ gw.attempts.stdio = 0

\* A call of the ATXP-first revision has ended in failure after one failed
\* ATXP request and one failed direct HTTP request, with no third request.
C14_Witness ==
    /\ gw.pc = "done" /\ ~gw.outcome.ok
    /\ gw.rev = "fallback" /\ gw.attempts.atxp = 1 /\ gw.attempts.http = 1

\* C15: whenever callTool returns a value it is the parsed response the
\* remote server gave to a request of this call, and with a disconnected
\* client or a missing credential callTool fails.
C15_NoPlaceholder ==
    gw.pc \in {"done", "classified"} =>
        /\ gw.outcome.ok =>
               /\ TotalAttempts >= 1
               /\ gw.received.ok /\ gw.outcome.resp = gw.received.resp
        /\ ~client => ~gw.outcome.ok

\* C16: a call that got past the connection and credential checks first
\* attempts the ATXP route, and when that attempt failed it has issued the
\* direct HTTP request and ends with that request's result.
C16_AtxpThenHttp ==
    (gw.pc \in {"done", "classified"} /\ gw.rev \in {"current", "fallback"}
       /\ client /\ apiKey) =>
        /\ gw.atxpTried
        /\ gw.atxpFailed =>
               /\ gw.attempts.http = 1
               /\ gw.outcome = gw.received

\* C17: when the ATXP attempt failed and the call completed through the
\* direct HTTP request with a response classified as a success, the trace
\* shows payment-confirmation as error and operation-complete as success.
C17_FallbackShowsPaymentError ==
    (gw.pc = "classified" /\ gw.atxpFailed /\ gw.attempts.http = 1
       /\ ~gw.flow.threw /\ gw.flow.steps[3].status = "success") =>
        /\ gw.flow.steps[4].status = "error"
        /\ gw.flow.steps[5].status = "success"

\* C18: every row of the ledger has status "success" or "error"; no handler
\* writes "pending".
C18_StatusNeverPending ==
    \A i \in 1..Len(ledger) : ledger[i].status \in {"success", "error"}

\* A handler has written the row of a failed call.
C18_Witness ==
    \E r \in ReqIds : \E i \in WrittenBy(r) :
        ledger[i].status = "error" /\ ~reqs[r].outcome.ok

\* The next step of the handler that serves request r.
HandlerStep(r) ==
    \/ \E o \in OutcomesOf(reqs[r].call) :
          \/ ToolsGatewayDone(r, o) \/ AgentsGatewayDone(r, o)
          \/ PricingGatewayDone(r, o) \/ ToolsV1GatewayDone(r, o)
    \/ ToolsRespond(r) \/ AgentsRespond(r) \/ PricingRespond(r)
    \/ ToolsV1Validated(r) \/ ToolsV1Respond(r)
    \/ \E paid \in BOOLEAN : ToolsV1PaymentDone(r, paid)

PositiveSignal(r) ==
    r.success = "true" \/ r.agentsSuccess = "true" \/ r.content.tag = "item"
ClaimedSuccess(r) ==
    /\ r.kind = "object"
    /\ \/ PositiveSignal(r)
       \/ (~responseContainsActualError(r) /\ r.success # "false")

\* C20: for every gateway response createAtxpFlow yields a trace whose
\* tool-execution-payment step is a success exactly when the response has
\* an explicit positive signal, or no failure substring in its text and no
\* success === false, and whose cost is the expected cost.
C20_ExecutionStepFollowsFormula ==
    flowOut # NoFlow =>
        /\ ~flowOut.threw
        /\ flowOut.steps[3].id = "tool-execution-payment"
        /\ flowOut.steps[3].status = "success" <=> ClaimedSuccess(flowIn)
        /\ flowOut.steps[3].cost = flowCost

\* C21: for every response, step 4 of the trace is a warning with cost 0
\* when the response text contains "[PAYMENT_FAILED]", whatever else the
\* response holds; otherwise an error with cost 0 when step 3 failed;
\* otherwise a success with the full expected cost.
C21_PaymentStepPrecedence ==
    flowOut # NoFlow =>
        /\ ~flowOut.threw
        /\ flowOut.steps[4].id = "payment-confirmation"
        /\ IF Includes(responseTextOf(flowIn).t, "[PAYMENT_FAILED]")
           THEN /\ flowOut.steps[4].status = "warning"
                /\ flowOut.steps[4].cost = NumCost(0)
           ELSE IF flowOut.steps[3].status = "error"
           THEN /\ flowOut.steps[4].status = "error"
                /\ flowOut.steps[4].cost = NumCost(0)
           ELSE /\ flowOut.steps[4].status = "success"
                /\ flowOut.steps[4].cost = flowCost

\* C22: in every trace createAtxpFlow returns, step 5 has the status of
\* step 3 and cost 0, and when the operation succeeded while step 4 is a
\* warning or an error the details of step 5 carry the parenthetical on the
\* payment state.
C22_CompletionMirrorsExecution ==
    (flowOut # NoFlow /\ ~flowOut.threw) =>
        /\ flowOut.steps[5].id = "operation-complete"
        /\ flowOut.steps[5].status = flowOut.steps[3].status
        /\ flowOut.steps[5].status \in {"success", "error"}
        /\ flowOut.steps[5].cost = NumCost(0)
        /\ (flowOut.steps[3].status = "success"
              /\ flowOut.steps[4].status \in {"warning", "error"}) =>
               flowOut.steps[5].details # "executed successfully"

\* C23: the argument map a call of callTool sends holds the caller's
\* arguments and, as apiKey, the configured credential whatever the caller
\* supplied; without a configured credential the call fails with no
\* outbound request.
C23_CredentialInjected ==
    (gw.pc # "idle" /\ gw.rev \in {"current", "fallback"}) =>
        /\ TotalAttempts >= 1 =>
               /\ gw.sentArgs.agentId = gw.callerArgs.agentId
               /\ gw.sentArgs.apiKey = ConfiguredKey
        /\ ~apiKey => /\ TotalAttempts = 0
                      /\ gw.pc = "done" /\ ~gw.outcome.ok

\* C24: getAgent(id, userId) returns the agent exactly when the agent
\* exists and userId is its owner or holds a grant for it at that moment,
\* and undefined otherwise: after the grant was removed, after the agent was
\* deleted, or for a user who never had access.
C24_GetAgentAccess ==
    answer.op = "getAgent" =>
        LET permitted ==
                {a \in agents :
                    /\ a.id = answer.id
                    /\ \/ a.ownerId = answer.userId
                       \/ \E i \in 1..Len(agentAccess[answer.userId]) :
                             agentAccess[answer.userId][i].agentId = a.id}
        IN  /\ permitted # {} => answer.agent \in permitted
            /\ permitted = {} => answer.agent = NoAgent
            /\ answer.result <=> permitted # {}

\* getAgent was asked for a deleted agent while another agent exists, and
\* returned undefined.
C24_Witness ==
    /\ answer.op = "getAgent" /\ answer.agent = NoAgent
    /\ answer.id < agentIdCounter /\ ~HasAgent(agents, answer.id)
    /\ agents # {}

\* C25: on every tool-invocation endpoint, GET /api/pricing included, the
\* ledger row of a request whose gateway call failed has cost 0, and the
\* trace built for it, if any, has a failed execution step and is not sent.
C25_FailedCallCostsNothing ==
    \A r \in ReqIds :
        (Settled(r) /\ ~reqs[r].outcome.ok) =>
            /\ \A i \in WrittenBy(r) : ledger[i].cost = ToStringOf(NumCost(0))
            /\ reqs[r].flow # NoFlow =>
                   /\ ~reqs[r].flow.threw
                   /\ reqs[r].flow.steps[3].status = "error"
            /\ Answered(r) => ~reqs[r].body.hasFlow

\* C26: the payment method is "apikey" until a POST /api/payment-method
\* with a valid method; a POST answers 200 and sets the method it names, or
\* answers 400 and leaves the method as it was; a GET reports the method
\* in force; and a call of callTool takes the ATXP route exactly when the
\* method in force at its start is "atxp", the direct HTTP route otherwise.
C26_PaymentMethodInForce ==
    [][/\ paymentMethod' \in ValidPaymentMethods
       /\ methodReply' = NoReply => paymentMethod' = "apikey"
       /\ (methodReply'.endpoint = "POST" /\ methodReply' # methodReply) =>
              IF methodReply'.http = 200
              THEN /\ methodReply'.paymentMethod \in ValidPaymentMethods
                   /\ paymentMethod' = methodReply'.paymentMethod
              ELSE /\ methodReply'.http = 400
                   /\ paymentMethod' = paymentMethod
       /\ methodReply'.endpoint = "GET" =>
              /\ methodReply'.http = 200
              /\ methodReply'.paymentMethod = paymentMethod'
       /\ methodReply' = methodReply => paymentMethod' = paymentMethod
       /\ (gw.pc = "idle" /\ gw'.pc \in {"atxp", "http"}
             /\ gw'.rev = "current") =>
              /\ gw'.attempts.atxp = 1 <=> paymentMethod = "atxp"
              /\ gw'.attempts.http = 1 <=> paymentMethod = "apikey"]_vars

\* After a valid POST set "atxp" and an invalid POST was answered 400, a
\* call of the current gateway has gone out on the ATXP route.
C26_Witness ==
    /\ methodReply = Reply("POST", 400, "none")
    /\ paymentMethod = "atxp"
    /\ gw.rev = "current" /\ gw.attempts.atxp = 1 /\ gw.attempts.http = 0

\* The methods that change an agent or its access grants on behalf of an
\* owner.
OwnerMethods ==
    {"updateAgent", "deleteAgent", "addUserToAgent", "removeUserFromAgent"}

\* C27: updateAgent, deleteAgent, addUserToAgent and removeUserFromAgent
\* called by a user who is not the owner of the agent, or for an agent that
\* does not exist, return failure and leave the agents map, every user's
\* access grants and the usage ledger as they were.
C27_NonOwnerChangesNothing ==
    [][(/\ answer' # answer
        /\ answer'.op \in OwnerMethods
        /\ \/ ~HasAgent(agents, answer'.id)
           \/ AgentOf(agents, answer'.id).ownerId # answer'.userId) =>
          /\ ~answer'.result
          /\ agents' = agents
          /\ agentAccess' = agentAccess
          /\ ledger' = ledger]_vars

\* A user who is not the owner was refused on an existing agent that has a
\* grant, while the ledger holds a row.
C27_Witness ==
    /\ answer.op \in OwnerMethods /\ ~answer.result
    /\ HasAgent(agents, answer.id)
    /\ AgentOf(agents, answer.id).ownerId # answer.userId
    /\ HasGrant(agentAccess, "user_b", answer.id)
    /\ Len(ledger) > 0

\* C28: no user holds two access grants for the same agent, and no access
\* grant of any user names an agent that has been deleted (one that is not
\* in the agents map).
C28_GrantsUniqueAndLive ==
    \A u \in Users :
        /\ \A i, j \in 1..Len(agentAccess[u]) :
               agentAccess[u][i].agentId = agentAccess[u][j].agentId => i = j
        /\ \A i \in 1..Len(agentAccess[u]) :
               HasAgent(agents, agentAccess[u][i].agentId)

\* An agent has just been deleted by its owner, and the one grant that is
\* left was added while another grant was held.
C28_Witness ==
    /\ answer.op = "deleteAgent" /\ answer.result
    /\ Len(agentAccess["user_b"]) = 1
    /\ agentAccess["user_b"][1].id = 2
    /\ agentAccess["user_b"][1].agentId # answer.id

\* C29: the access grants held by one user all have distinct ids.
C29_GrantIdsDistinct ==
    \A u \in Users :
        \A i, j \in 1..Len(agentAccess[u]) :
            agentAccess[u][i].id = agentAccess[u][j].id => i = j

\* C30: the list getUserAgents(userId) returned holds no agent twice, and
\* every agent in it is owned by the user or granted to the user.
C30_UserAgentsListedOnce ==
    answer.op = "getUserAgents" =>
        /\ \A i, j \in 1..Len(answer.list) :
               answer.list[i].id = answer.list[j].id => i = j
        /\ \A i \in 1..Len(answer.list) :
               /\ answer.list[i] \in agents
               /\ \/ answer.list[i].ownerId = answer.userId
                  \/ HasGrant(agentAccess, answer.userId, answer.list[i].id)

====
